---------------------------- MODULE Spec2Model ----------------------------
(***************************************************************************)
(* Model of package snpp (snpp.go): the frame reader read, the frame       *)
(* writer write and the handshake driver SendPage.                         *)
(*                                                                         *)
(* Text is modelled as sequences of byte values (ASCII codes).  Every      *)
(* invocation of SendPage is a process i with SendPage's locals (conn,     *)
(* msg, the error it returns) and read's local bigBuffer.  A connection is *)
(* a record of what the remote side and the runtime can observe of it:     *)
(* the bytes written, the number of Close calls, the armed deadline.       *)
(* The blocking calls (DialTimeout, conn.Read, conn.Write) are the steps   *)
(* of the model; their results are chosen by the environment.              *)
(*                                                                         *)
(* Time: a deadline armed by SetDeadline lasts DeadlineTicks ticks; every  *)
(* conn.Read that delivers something takes one tick; a Read started after  *)
(* the deadline has passed fails with a timeout.                           *)
(***************************************************************************)
EXTENDS Naturals, Sequences, FiniteSets

\* ---------------------------------------------------------------- bounds

\* Number of SendPage invocations of the concurrent specification.
NumProcs == 2
\* Ticks a deadline of 30 seconds lasts (snpp.go:22, :48).
DeadlineTicks == 2

Procs == 1..NumProcs
ConnIds == 1..NumProcs

\* ------------------------------------------------------------- constants

CR == 13
LF == 10

\* "220", "250", "221"
S220 == <<50, 50, 48>>
S250 == <<50, 53, 48>>
S221 == <<50, 50, 49>>

ErrFailedConnection == "ErrFailedConnection"
ErrRejectedPhone == "ErrRejectedPhone"
ErrRejectedMessage == "ErrRejectedMessage"
ErrFailedSend == "ErrFailedSend"
ErrForceQuit == "ErrForceQuit"

ProtocolErrors ==
    {ErrFailedConnection, ErrRejectedPhone, ErrRejectedMessage, ErrFailedSend,
     ErrForceQuit}

\* Errors of the transport: a deadline that expired, any other failure.
TransportErrors == {"timeout", "ioerr"}

\* ---------------------------------------------------------------- inputs

\* Pager ids and messages SendPage is called with: "555", "7"; "hi", and
\* "a\r\nb", a message with an embedded CR LF.
Numbers == {<<53, 53, 53>>, <<55>>}
Messages == {<<104, 105>>, <<97, CR, LF, 98>>}

\* Chunks one conn.Read may deliver: the three frames "220\r\n", "250\r\n",
\* "221\r\n"; the frame "220\r\n" split as "22" and "0\r\n"; the
\* unterminated text "220"; the one byte "\n"; no byte at all; "220\r",
\* which ends in CR alone; "220\r\n2", with CR LF in its interior only.
Chunks ==
    {<<50, 50, 48, CR, LF>>, <<50, 53, 48, CR, LF>>, <<50, 50, 49, CR, LF>>,
     <<50, 50>>, <<48, CR, LF>>, S220, <<LF>>, <<>>,
     <<50, 50, 48, CR>>, <<50, 50, 48, CR, LF, 50>>}

\* What one conn.Read may return, (n bytes, err): a chunk with no error,
\* end-of-input or a failure with no byte, and (io.Reader allows it) bytes
\* together with end-of-input or with a failure.
AllReads ==
    [data : Chunks, err : {"nil"}]
    \cup [data : {<<>>}, err : {"EOF", "timeout", "ioerr"}]
    \cup [data : {<<50, 53, 48, CR, LF>>}, err : {"EOF", "ioerr"}]

\* The gateway of the concurrent specification: whole frames and failures.
FrameReads ==
    [data : {<<50, 50, 48, CR, LF>>, <<50, 53, 48, CR, LF>>,
             <<50, 50, 49, CR, LF>>}, err : {"nil"}]
    \cup [data : {<<>>}, err : {"ioerr"}]

\* ----------------------------------------------------------------- state

VARIABLES
    active,     \* the invocations of SendPage that are made
    gateway,    \* what a conn.Read may return
    callers,    \* the (number, message) arguments each invocation may get
    pc,         \* where each invocation is
    step,       \* the handshake step (1..5) it is at
    number,     \* SendPage's parameter number
    message,    \* SendPage's parameter message
    conn,       \* SendPage's local conn (0: none)
    bigBuffer,  \* read's local bigBuffer
    msg,        \* SendPage's local msg
    result,     \* the error SendPage returned ("none": not returned yet)
    hist,       \* the results of the blocking calls of the invocation
    conns,      \* the connections
    nextConn    \* the next connection the dialer hands out

vars ==
    <<active, gateway, callers, pc, step, number, message, conn, bigBuffer, msg,
      result, hist, conns, nextConn>>

\* -------------------------------------------------------------- helpers

\* HasPrefix looking for p anywhere in s, as strings.Contains does.
HasPrefixAnywhere(s, p) ==
    \E k \in 0..Len(s) :
        k + Len(p) <= Len(s) /\ SubSeq(s, k + 1, k + Len(p)) = p

\* strings.HasPrefix(s, p)
HasPrefix(s, p) == Len(s) >= Len(p) /\ SubSeq(s, 1, Len(p)) = p

\* Expect with the last step waiting for "250" like the three before it.
ExpectAll250(s) == IF s = 1 THEN S220 ELSE S250

\* The status prefix SendPage expects at a step.
Expect(s) ==
    CASE s = 1 -> S220
      [] s = 2 -> S250
      [] s = 3 -> S250
      [] s = 4 -> S250
      [] s = 5 -> S221

\* Failure with the error of step 2 returned at step 3 as well.
FailureCopied(s) ==
    CASE s = 1 -> ErrFailedConnection
      [] s = 2 -> ErrRejectedPhone
      [] s = 3 -> ErrRejectedPhone
      [] s = 4 -> ErrFailedSend
      [] s = 5 -> ErrForceQuit

\* The error SendPage returns when the response of a step is not accepted.
Failure(s) ==
    CASE s = 1 -> ErrFailedConnection
      [] s = 2 -> ErrRejectedPhone
      [] s = 3 -> ErrRejectedMessage
      [] s = 4 -> ErrFailedSend
      [] s = 5 -> ErrForceQuit

\* Command without the space before CR LF.
CommandNoSpace(s, num, mes) ==
    CASE s = 2 -> <<80, 65, 71, 69, 32>> \o num \o <<CR, LF>>
      [] s = 3 -> <<77, 69, 83, 83, 32>> \o mes \o <<CR, LF>>
      [] s = 4 -> <<83, 69, 78, 68, CR, LF>>
      [] s = 5 -> <<81, 85, 73, 84, CR, LF>>

\* The command SendPage writes at a step (2..5): fmt.Sprintf("PAGE %s \r\n",
\* number), fmt.Sprintf("MESS %s \r\n", message), "SEND \r\n", "QUIT \r\n".
Command(s, num, mes) ==
    CASE s = 2 -> <<80, 65, 71, 69, 32>> \o num \o <<32, CR, LF>>
      [] s = 3 -> <<77, 69, 83, 83, 32>> \o mes \o <<32, CR, LF>>
      [] s = 4 -> <<83, 69, 78, 68, 32, CR, LF>>
      [] s = 5 -> <<81, 85, 73, 84, 32, CR, LF>>

\* ReadIter returning the last chunk in place of the accumulated text.
ReadIterLastChunk(buf, o) ==
    IF o.err # "nil"
    THEN IF o.err # "EOF"
         THEN [k |-> "return", buf |-> buf, msg |-> <<>>, err |-> o.err]
         ELSE [k |-> "return", buf |-> buf, msg |-> buf, err |-> "nil"]
    ELSE LET b == buf \o o.data
             n == Len(o.data)
         IN  IF n < 2
             THEN [k |-> "panic", buf |-> b, msg |-> <<>>, err |-> "nil"]
             ELSE IF o.data[n - 1] = CR /\ o.data[n] = LF
                  THEN [k |-> "return", buf |-> b, msg |-> o.data,
                        err |-> "nil"]
                  ELSE [k |-> "continue", buf |-> b, msg |-> <<>>,
                        err |-> "nil"]

\* ReadIter with end-of-input returned as an error like any other.
ReadIterEOFIsError(buf, o) ==
    IF o.err # "nil"
    THEN [k |-> "return", buf |-> buf, msg |-> <<>>, err |-> o.err]
    ELSE LET b == buf \o o.data
             n == Len(o.data)
         IN  IF n < 2
             THEN [k |-> "panic", buf |-> b, msg |-> <<>>, err |-> "nil"]
             ELSE IF o.data[n - 1] = CR /\ o.data[n] = LF
                  THEN [k |-> "return", buf |-> b, msg |-> b, err |-> "nil"]
                  ELSE [k |-> "continue", buf |-> b, msg |-> <<>>,
                        err |-> "nil"]

\* ReadIter with every error of conn.Read ending the loop like end-of-input.
ReadIterBreakOnError(buf, o) ==
    IF o.err # "nil"
    THEN [k |-> "return", buf |-> buf, msg |-> buf, err |-> "nil"]
    ELSE LET b == buf \o o.data
             n == Len(o.data)
         IN  IF n < 2
             THEN [k |-> "panic", buf |-> b, msg |-> <<>>, err |-> "nil"]
             ELSE IF o.data[n - 1] = CR /\ o.data[n] = LF
                  THEN [k |-> "return", buf |-> b, msg |-> b, err |-> "nil"]
                  ELSE [k |-> "continue", buf |-> b, msg |-> <<>>,
                        err |-> "nil"]

\* One iteration of read's loop on the result o of conn.Read: the loop goes
\* on ("continue"), read returns (msg, err) ("return"), or the index
\* readBuf[n-2] is out of range and the goroutine panics ("panic").
ReadIter(buf, o) ==
    IF o.err # "nil"
    THEN IF o.err # "EOF"
         THEN [k |-> "return", buf |-> buf, msg |-> <<>>, err |-> o.err]
         ELSE [k |-> "return", buf |-> buf, msg |-> buf, err |-> "nil"]
    ELSE LET b == buf \o o.data
             n == Len(o.data)
         IN  IF n < 2
             THEN [k |-> "panic", buf |-> b, msg |-> <<>>, err |-> "nil"]
             ELSE IF o.data[n - 1] = CR /\ o.data[n] = LF
                  THEN [k |-> "return", buf |-> b, msg |-> b, err |-> "nil"]
                  ELSE [k |-> "continue", buf |-> b, msg |-> <<>>,
                        err |-> "nil"]

\* AfterRead with the answer to QUIT not looked at.
AfterReadAnyGoodbye(s, m, err) ==
    IF err # "nil" THEN [k |-> "return", err |-> err, step |-> s]
    ELSE IF s = 5 THEN [k |-> "return", err |-> "nil", step |-> s]
    ELSE IF ~HasPrefix(m, Expect(s))
    THEN [k |-> "return", err |-> Failure(s), step |-> s]
    ELSE [k |-> "write", err |-> "nil", step |-> s + 1]

\* AfterRead with a rejected command (steps 2..5) written again.
AfterReadRetry(s, m, err) ==
    IF err # "nil" THEN [k |-> "return", err |-> err, step |-> s]
    ELSE IF ~HasPrefix(m, Expect(s))
    THEN IF s = 1 THEN [k |-> "return", err |-> Failure(s), step |-> s]
         ELSE [k |-> "write", err |-> "nil", step |-> s]
    ELSE IF s = 5 THEN [k |-> "return", err |-> "nil", step |-> s]
    ELSE [k |-> "write", err |-> "nil", step |-> s + 1]

\* What SendPage does with what read returned at step s: return an error,
\* return nil after the last step, or go on to the write of the next step.
AfterRead(s, m, err) ==
    IF err # "nil" THEN [k |-> "return", err |-> err, step |-> s]
    ELSE IF ~HasPrefix(m, Expect(s))
    THEN [k |-> "return", err |-> Failure(s), step |-> s]
    ELSE IF s = 5 THEN [k |-> "return", err |-> "nil", step |-> s]
    ELSE [k |-> "write", err |-> "nil", step |-> s + 1]

\* The result of a blocking call, as hist records it: the call ("D", "R",
\* "W"), the bytes read or written, their number, the error.
Event(op, data, n, err) == [op |-> op, data |-> data, n |-> n, err |-> err]

\* DialError reporting a failed dial as a greeting that was not accepted.
DialErrorAsRejection(err) == ErrFailedConnection

\* What SendPage returns when net.DialTimeout failed with err: connErr.
DialError(err) == err

\* NewConn with one connection kept and handed to every invocation.
NewConnShared(next) == 1

\* The connection the dialer hands out.
NewConn(next) == next

\* A connection nobody has dialed yet.
NoConn ==
    [closes |-> 0, wire |-> <<>>, deadline |-> 0, users |-> {},
     afterClose |-> FALSE, arms |-> 0, ioArm |-> 0]

\* Invocation i calls a method of the connection.
Use(cn, i) ==
    [cn EXCEPT !.users = @ \cup {i}, !.afterClose = @ \/ cn.closes > 0]

\* SetDeadline arming the deadline of a connection once, for the whole
\* handshake.
SetDeadlineOnce(cn, i) ==
    IF cn.arms = 0
    THEN [Use(cn, i) EXCEPT !.deadline = DeadlineTicks, !.arms = 1]
    ELSE Use(cn, i)

\* conn.SetDeadline(time.Now().Add(30 * time.Second)): the deadline is armed
\* anew (arms counts the armings of the connection).
SetDeadline(cn, i) ==
    [Use(cn, i) EXCEPT !.deadline = DeadlineTicks, !.arms = @ + 1]

\* conn.Read or conn.Write is called: it runs under the deadline armed last
\* (ioArm: which arming that was).
IO(cn, i) == [Use(cn, i) EXCEPT !.ioArm = cn.arms]

\* Close that does nothing: the defer forgotten.
CloseForgotten(cn, i) == cn

\* conn.Close(), deferred by SendPage.
Close(cn, i) ==
    [cn EXCEPT !.users = @ \cup {i}, !.closes = @ + 1]

\* What conn.Read may return on a connection: a timeout once the deadline
\* has passed.
ReadResults(cn) ==
    IF cn.deadline = 0 THEN {[data |-> <<>>, err |-> "timeout"]} ELSE gateway

\* WriteResults of a write that leaves the command in the bufio.Writer: no
\* Flush, nothing handed to the connection, no error.
WriteResultsNoFlush(cmd) ==
    {[n |-> 0, err |-> "nil"], [n |-> 0, err |-> "timeout"],
     [n |-> Len(cmd) - 1, err |-> "ioerr"]}

\* What the flush of command cmd may return, (n bytes written, err): all of
\* it; a timeout with nothing written; a failure after all but one byte.
WriteResults(cmd) ==
    {[n |-> Len(cmd), err |-> "nil"], [n |-> 0, err |-> "timeout"],
     [n |-> Len(cmd) - 1, err |-> "ioerr"]}

\* ------------------------------------------------------------------ init

InitWith(a, g, args) ==
    /\ active = a
    /\ gateway = g
    /\ callers = args
    /\ pc = [i \in Procs |-> "dial"]
    /\ step = [i \in Procs |-> 1]
    /\ number = [i \in Procs |-> <<>>]
    /\ message = [i \in Procs |-> <<>>]
    /\ conn = [i \in Procs |-> 0]
    /\ bigBuffer = [i \in Procs |-> <<>>]
    /\ msg = [i \in Procs |-> <<>>]
    /\ result = [i \in Procs |-> "none"]
    /\ hist = [i \in Procs |-> <<>>]
    /\ conns = [c \in ConnIds |-> NoConn]
    /\ nextConn = 1

\* One invocation, against every behaviour of the connection.
Init == InitWith({1}, AllReads, [i \in Procs |-> Numbers \X Messages])

\* NumProcs concurrent invocations, for pager "555" and pager "7" in turn
\* with message "hi", against a gateway that sends frames.
ConcInit ==
    InitWith(Procs, FrameReads,
             [i \in Procs |->
                {<<IF i % 2 = 1 THEN <<53, 53, 53>> ELSE <<55>>, <<104, 105>>>>}])

\* --------------------------------------------------------------- actions

\* SendPage is called: net.DialTimeout, and on success the deferred Close is
\* registered and read is entered (its SetDeadline).
DialTimeout(i) ==
    /\ i \in active
    /\ pc[i] = "dial"
    /\ \E args \in callers[i], ok \in BOOLEAN :
          /\ number' = [number EXCEPT ![i] = args[1]]
          /\ message' = [message EXCEPT ![i] = args[2]]
          /\ IF ok
             THEN LET c == NewConn(nextConn)
                  IN  /\ conn' = [conn EXCEPT ![i] = c]
                      /\ nextConn' = nextConn + 1
                      /\ conns' = [conns EXCEPT ![c] = SetDeadline(@, i)]
                      /\ pc' = [pc EXCEPT ![i] = "read"]
                      /\ hist' = [hist EXCEPT ![i] = Append(@, Event("D", <<>>, 0, "nil"))]
                      /\ UNCHANGED result
             ELSE /\ pc' = [pc EXCEPT ![i] = "done"]
                  /\ result' = [result EXCEPT ![i] = DialError("dialerr")]
                  /\ hist' = [hist EXCEPT ![i] = Append(@, Event("D", <<>>, 0, "dialerr"))]
                  /\ UNCHANGED <<conn, nextConn, conns>>
    /\ UNCHANGED <<active, gateway, callers, step, bigBuffer, msg>>

\* One conn.Read of read's loop and what follows it without blocking: the
\* rest of the iteration and, when read returns, SendPage's check of the
\* response up to its return or to the next write.
ConnRead(i) ==
    /\ pc[i] = "read"
    /\ LET c == conn[i] IN
       \E o \in ReadResults(conns[c]) :
          LET r == ReadIter(bigBuffer[i], o)
              a == AfterRead(step[i], r.msg, r.err)
              cn == [IO(conns[c], i) EXCEPT
                        !.deadline = IF @ > 0 THEN @ - 1 ELSE 0]
          IN  /\ hist' = [hist EXCEPT ![i] = Append(@, Event("R", o.data, Len(o.data), o.err))]
              /\ bigBuffer' = [bigBuffer EXCEPT ![i] = r.buf]
              /\ CASE r.k = "continue" ->
                        /\ conns' = [conns EXCEPT ![c] = cn]
                        /\ UNCHANGED <<pc, step, msg, result>>
                   [] r.k = "panic" ->
                        /\ conns' = [conns EXCEPT ![c] = Close(cn, i)]
                        /\ pc' = [pc EXCEPT ![i] = "panic"]
                        /\ UNCHANGED <<step, msg, result>>
                   [] r.k = "return" /\ a.k = "return" ->
                        /\ conns' = [conns EXCEPT ![c] = Close(cn, i)]
                        /\ msg' = [msg EXCEPT ![i] = r.msg]
                        /\ pc' = [pc EXCEPT ![i] = "done"]
                        /\ result' = [result EXCEPT ![i] = a.err]
                        /\ UNCHANGED step
                   [] r.k = "return" /\ a.k = "write" ->
                        /\ conns' = [conns EXCEPT ![c] = cn]
                        /\ msg' = [msg EXCEPT ![i] = r.msg]
                        /\ pc' = [pc EXCEPT ![i] = "write"]
                        /\ step' = [step EXCEPT ![i] = a.step]
                        /\ UNCHANGED result
    /\ UNCHANGED <<active, gateway, callers, number, message, conn, nextConn>>

\* write of the step's command (SetDeadline, WriteString into the
\* bufio.Writer, Flush: one conn.Write, the command being shorter than the
\* writer's buffer), then SendPage's return on an error or its entry into
\* read (a new bigBuffer, SetDeadline).
ConnWrite(i) ==
    /\ pc[i] = "write"
    /\ LET c == conn[i]
           cmd == Command(step[i], number[i], message[i])
       IN
       \E w \in WriteResults(cmd) :
          LET cn == [IO(SetDeadline(conns[c], i), i) EXCEPT
                        !.wire = @ \o SubSeq(cmd, 1, w.n)]
          IN  /\ hist' = [hist EXCEPT ![i] = Append(@, Event("W", SubSeq(cmd, 1, w.n), w.n, w.err))]
              /\ IF w.err # "nil"
                 THEN /\ conns' = [conns EXCEPT ![c] = Close(cn, i)]
                      /\ pc' = [pc EXCEPT ![i] = "done"]
                      /\ result' = [result EXCEPT ![i] = w.err]
                      /\ UNCHANGED bigBuffer
                 ELSE /\ conns' = [conns EXCEPT ![c] = SetDeadline(cn, i)]
                      /\ pc' = [pc EXCEPT ![i] = "read"]
                      /\ bigBuffer' = [bigBuffer EXCEPT ![i] = <<>>]
                      /\ UNCHANGED result
    /\ UNCHANGED <<active, gateway, callers, step, number, message, conn, msg, nextConn>>

Step(i) == DialTimeout(i) \/ ConnRead(i) \/ ConnWrite(i)

Next == \E i \in Procs : Step(i)

Spec == Init /\ [][Next]_vars

ConcSpec == ConcInit /\ [][Next]_vars

\* Every blocking call of an invocation that was made completes or fails.
FairSpec == Init /\ [][Next]_vars /\ \A i \in Procs : WF_vars(Step(i))

\* ------------------------------------------------- the documented protocol

\* The handshake table: expected prefix and failure signal of steps 1..5, and
\* the command of steps 2..5.
TablePrefix == <<S220, S250, S250, S250, S221>>

TableFailure ==
    <<"ErrFailedConnection", "ErrRejectedPhone", "ErrRejectedMessage",
      "ErrFailedSend", "ErrForceQuit">>

TableCommand(s, num, mes) ==
    IF s = 2 THEN <<80, 65, 71, 69>> \o <<32>> \o num \o <<32, 13, 10>>
    ELSE IF s = 3 THEN <<77, 69, 83, 83>> \o <<32>> \o mes \o <<32, 13, 10>>
    ELSE IF s = 4 THEN <<83, 69, 78, 68>> \o <<32, 13, 10>>
    ELSE <<81, 85, 73, 84>> \o <<32, 13, 10>>

\* The bytes of the first k commands, in order.
RECURSIVE WireOf(_, _, _)
WireOf(k, num, mes) ==
    IF k = 0 THEN <<>>
    ELSE WireOf(k - 1, num, mes) \o TableCommand(k + 1, num, mes)

Last(h) == h[Len(h)]

Front(h) == SubSeq(h, 1, Len(h) - 1)

EndsWithCRLF(d) == Len(d) >= 2 /\ d[Len(d) - 1] = 13 /\ d[Len(d)] = 10

Count(h, op) == Cardinality({k \in 1..Len(h) : h[k].op = op})

\* The handshake step the last blocking call of history h belongs to.
StepOf(h) == IF Count(h, "W") = 0 THEN 1 ELSE Count(h, "W") + 1

\* The last call of h is a conn.Read after which read returned a text.
ReadReturned(h) ==
    /\ Len(h) > 0
    /\ Last(h).op = "R"
    /\ \/ Last(h).err = "EOF"
       \/ Last(h).err = "nil" /\ EndsWithCRLF(Last(h).data)

\* The last call of h failed with an error of the transport.
IOFailed(h) ==
    Len(h) > 0 /\ Last(h).op \in {"R", "W"} /\ Last(h).err \in {"timeout", "ioerr"}

\* The wire of invocation i's connection.
WireFor(i) == conns[conn[i]].wire

\* ----------------------------------------------------------------- claims

\* C1: when the response read at step s (steps 1..s-1 accepted) does not
\* start with the expected prefix, SendPage has returned exactly the failure
\* signal of step s, the connection is closed, and the wire holds the
\* commands of steps 2..s and nothing of any later step.
C1_RejectionStopsHandshake ==
    \A i \in active :
        LET h == hist[i]
            s == StepOf(h)
        IN  (ReadReturned(h) /\ pc[i] # "panic"
                /\ ~HasPrefix(msg[i], TablePrefix[s]))
            => /\ pc[i] = "done"
               /\ result[i] = TableFailure[s]
               /\ WireFor(i) = WireOf(s - 1, number[i], message[i])
               /\ conns[conn[i]].closes = 1

\* "220", then a whole frame "221\r\n" in answer to PAGE: ErrRejectedPhone,
\* the connection closed, PAGE on the wire and no MESS.
C1_Witness ==
    /\ pc[1] = "done"
    /\ result[1] = "ErrRejectedPhone"
    /\ msg[1] = <<50, 50, 49, 13, 10>>
    /\ StepOf(hist[1]) = 2
    /\ WireFor(1) = TableCommand(2, number[1], message[1])
    /\ conns[conn[1]].closes = 1

\* Every call so far succeeded and every conn.Read delivered one whole
\* CRLF-terminated frame starting with the prefix its step expects.
GatewayAnswers(h) ==
    /\ Len(h) > 0
    /\ \A k \in 1..Len(h) :
          /\ h[k].err = "nil"
          /\ h[k].op = "R" =>
                /\ EndsWithCRLF(h[k].data)
                /\ HasPrefix(h[k].data, TablePrefix[StepOf(SubSeq(h, 1, k))])

\* C2: when the dial succeeds and the gateway answers each round with a
\* frame starting with 220, 250, 250, 250, 221 and nothing fails, SendPage
\* returns nil after the fifth answer and not before, having written exactly
\* PAGE, MESS, SEND, QUIT, each once and in that order.
C2_HandshakeSucceeds ==
    \A i \in active :
        LET h == hist[i]
            answers == Count(h, "R")
        IN  GatewayAnswers(h)
            => /\ pc[i] # "panic"
               /\ result[i] \in {"none", "nil"}
               /\ answers <= 5
               /\ answers = 5 <=> (pc[i] = "done" /\ result[i] = "nil")
               /\ answers = 5
                    => WireFor(i) = WireOf(4, number[i], message[i])

C2_Witness ==
    /\ GatewayAnswers(hist[1])
    /\ result[1] = "nil"
    /\ Count(hist[1], "R") = 5
    /\ Count(hist[1], "W") = 4

\* C3: the connection is closed exactly once when SendPage has returned, is
\* not closed before, and nothing is called on it after the close.
C3_ClosedExactlyOnce ==
    /\ \A c \in ConnIds : conns[c].closes <= 1 /\ ~conns[c].afterClose
    /\ \A i \in active :
          /\ (pc[i] = "done" /\ conn[i] # 0) => conns[conn[i]].closes = 1
          /\ pc[i] \in {"read", "write"} => conns[conn[i]].closes = 0

\* A return after a failed write, and the connection closed once.
C3_Witness ==
    /\ pc[1] = "done"
    /\ result[1] = "ioerr"
    /\ Last(hist[1]).op = "W"
    /\ conns[conn[1]].closes = 1

\* C4: a conn.Read or conn.Write that fails with a transport error is the
\* last call SendPage makes on the connection, and SendPage has returned
\* that error, which is none of the five protocol errors.
C4_TransportErrorStops ==
    \A i \in active :
        LET h == hist[i] IN
        \A k \in 1..Len(h) :
            (h[k].op \in {"R", "W"} /\ h[k].err \in {"timeout", "ioerr"})
            => /\ k = Len(h)
               /\ pc[i] = "done"
               /\ result[i] = h[k].err
               /\ \A s \in 1..5 : result[i] # TableFailure[s]

\* The deadline expires in the first read after "220" and "22" have been
\* received: the text starts with the expected prefix, the timeout is
\* returned.
C4_Witness ==
    /\ pc[1] = "done"
    /\ result[1] = "timeout"
    /\ StepOf(hist[1]) = 1
    /\ Last(hist[1]).op = "R"
    /\ HasPrefix(bigBuffer[1], TablePrefix[1])

\* C5: read never indexes a chunk outside its bounds, whatever the sizes of
\* the chunks the connection delivers.
C5_ShortChunkNoCrash == \A i \in active : pc[i] # "panic"

\* No CR LF inside the text.
ProtocolSafe(t) == \A k \in 1..Len(t) : ~EndsWithCRLF(SubSeq(t, 1, k))

\* C6: for a protocol-safe pager id and message, what SendPage writes is
\* "PAGE <number> \r\n", "MESS <message> \r\n", "SEND \r\n", "QUIT \r\n",
\* byte for byte: the k-th write is the k-th of these, and the wire holds
\* them in order (of a write that failed, the bytes it got out) and nothing
\* else.
C6_CommandBytes ==
    \A i \in active :
        (conn[i] # 0 /\ ProtocolSafe(number[i]) /\ ProtocolSafe(message[i]))
        => LET h == hist[i]
               ok == Cardinality({k \in 1..Len(h) :
                                    h[k].op = "W" /\ h[k].err = "nil"})
               sent == WireOf(ok, number[i], message[i])
           IN  /\ Count(h, "W") <= 4
               /\ IF Last(h).op = "W" /\ Last(h).err # "nil"
                  THEN WireFor(i) = sent \o
                         SubSeq(TableCommand(ok + 2, number[i], message[i]),
                                1, Last(h).n)
                  ELSE WireFor(i) = sent

\* All four commands written for pager "555" and message "hi".
C6_Witness ==
    /\ number[1] = <<53, 53, 53>>
    /\ message[1] = <<104, 105>>
    /\ conn[1] # 0
    /\ WireFor(1) =
         <<80, 65, 71, 69, 32, 53, 53, 53, 32, 13, 10,
           77, 69, 83, 83, 32, 104, 105, 32, 13, 10,
           83, 69, 78, 68, 32, 13, 10,
           81, 85, 73, 84, 32, 13, 10>>

\* C7: an invocation that has not returned (with nil, a protocol rejection,
\* or a transport or dial failure) can always take its next step: SendPage
\* never stops without returning.
C7_AlwaysReturns ==
    \A i \in active :
        \/ result[i] \in {"nil", "timeout", "ioerr", "dialerr"}
        \/ \E s \in 1..5 : result[i] = TableFailure[s]
        \/ ENABLED Step(i)

\* The part of C7 the code does keep: under the deadline every invocation
\* stops, by returning or by the panic of C5; read does not loop forever.
ReadLoopEnds == <>(\A i \in active : pc[i] \in {"done", "panic"})

\* What SendPage has returned, running alone, after the calls of history h
\* ("none": it has not returned).
RECURSIVE Received(_)
Received(h) ==
    IF h = <<>> \/ Last(h).op # "R" THEN <<>>
    ELSE IF Last(h).err = "nil" THEN Received(Front(h)) \o Last(h).data
    ELSE Received(Front(h))

Outcome(h) ==
    IF h = <<>> THEN "none"
    ELSE IF Last(h).err \notin {"nil", "EOF"} THEN Last(h).err
    ELSE IF ~ReadReturned(h) THEN "none"
    ELSE IF ~HasPrefix(Received(h), TablePrefix[StepOf(h)])
    THEN TableFailure[StepOf(h)]
    ELSE IF StepOf(h) = 5 THEN "nil"
    ELSE "none"

\* The bytes the writes of history h put on the wire.
RECURSIVE Written(_)
Written(h) ==
    IF h = <<>> THEN <<>>
    ELSE IF Last(h).op = "W" THEN Written(Front(h)) \o Last(h).data
    ELSE Written(Front(h))

\* C8: under every interleaving each invocation has a connection of its own,
\* which no other invocation reads, writes or closes; what it has returned
\* and what its connection has on the wire are what its own calls and
\* arguments give when it runs alone.
C8_NoInterference ==
    /\ \A i, j \in active :
          (i # j /\ conn[i] # 0 /\ conn[j] # 0) => conn[i] # conn[j]
    /\ \A c \in ConnIds :
          conns[c].users \subseteq {i \in active : conn[i] = c}
    /\ \A i \in active :
          /\ pc[i] # "panic" => result[i] = Outcome(hist[i])
          /\ conn[i] # 0 =>
                /\ WireFor(i) = Written(hist[i])
                /\ \E k \in 0..4 :
                      \E n \in 0..Len(TableCommand(k + 2, number[i], message[i])) :
                         WireFor(i) = WireOf(k, number[i], message[i]) \o
                            SubSeq(TableCommand(k + 2, number[i], message[i]),
                                   1, n)
                /\ conns[conn[i]].closes =
                      (IF pc[i] \in {"done", "panic"} THEN 1 ELSE 0)

\* Two invocations in the middle of their handshakes, for different pagers:
\* one about to write SEND, the other reading the answer to PAGE.
C8_Witness ==
    /\ pc[1] = "write" /\ step[1] = 4
    /\ pc[2] = "read" /\ step[2] = 2
    /\ number[1] # number[2]
    /\ conn[1] # conn[2]
    /\ WireFor(2) = TableCommand(2, number[2], message[2])

\* One step of invocation i keeps to the chain: the dial first, then the
\* read of step 1, then for each step 2..5 one write of its command followed
\* by its read; the step number never decreases; nothing moves once SendPage
\* has returned.
ChainStep(i) ==
    LET h == hist[i]
        e == Last(hist'[i])
    IN  /\ step'[i] \in {step[i], step[i] + 1}
        /\ pc[i] \in {"done", "panic"} =>
              /\ pc'[i] = pc[i] /\ hist'[i] = h /\ result'[i] = result[i]
              /\ conn[i] # 0 => conns'[conn[i]] = conns[conn[i]]
        /\ result[i] # "none" => pc[i] = "done"
        /\ hist'[i] # h =>
              /\ hist'[i] = Append(h, e)
              /\ e.op = "D" => h = <<>>
              /\ e.op = "R" =>
                    /\ h # <<>> /\ Last(h).err = "nil"
                    /\ step[i] = Count(h, "W") + 1
                    /\ WireFor(i)' = WireFor(i)
              /\ e.op = "W" =>
                    /\ ReadReturned(h)
                    /\ step[i] = Count(h, "W") + 2
                    /\ step[i] \in 2..5
                    /\ e.data = SubSeq(TableCommand(step[i], number[i],
                                                    message[i]), 1, e.n)
                    /\ WireFor(i)' = WireFor(i) \o e.data

\* C9: the handshake is a strict linear chain (ChainStep at every step of
\* every invocation).
C9_LinearChain == [][\A i \in active : ChainStep(i)]_vars

\* SEND was written as the third command and its answer rejected.
C9_Witness ==
    /\ pc[1] = "done"
    /\ result[1] = "ErrFailedSend"
    /\ Count(hist[1], "W") = 3
    /\ step[1] = 4

\* The read was ended by a clean end-of-input.
EndOfInput(h) == Len(h) > 0 /\ Last(h).op = "R" /\ Last(h).err = "EOF"

\* C10 as stated: after a clean end-of-input with no terminator observed,
\* SendPage returns the rejection signal of the step, whatever text had
\* been accumulated.
C10_EndOfInputRejected ==
    \A i \in active :
        EndOfInput(hist[i])
        => pc[i] = "done" /\ result[i] = TableFailure[StepOf(hist[i])]

\* C10 as amended: after a clean end-of-input with no terminator observed,
\* read returns the text accumulated so far with no error, and SendPage
\* returns the rejection signal of the step if and only if that text does
\* not start with the step's prefix; a text that does is accepted.
C10_EndOfInputChecked ==
    \A i \in active :
        LET h == hist[i]
            s == StepOf(h)
        IN  EndOfInput(h)
            => /\ msg[i] = Received(h)
               /\ IF ~HasPrefix(Received(h), TablePrefix[s])
                  THEN pc[i] = "done" /\ result[i] = TableFailure[s]
                  ELSE IF s = 5
                  THEN pc[i] = "done" /\ result[i] = "nil"
                  ELSE /\ pc[i] = "write" /\ result[i] = "none"
                       /\ step[i] = s + 1

\* "220" without a terminator, then end-of-input: the greeting is accepted
\* and PAGE is about to be written.
C10_Witness ==
    /\ EndOfInput(hist[1])
    /\ msg[1] = <<50, 50, 48>>
    /\ pc[1] = "write"
    /\ step[1] = 2

\* The three events of C11 on the result e of a conn.Read: (a) a chunk that
\* ends with CR LF, (b) a clean end-of-input, (c) an error.
StopEvent(e) ==
    \/ e.err = "nil" /\ EndsWithCRLF(e.data)
    \/ e.err = "EOF"
    \/ e.err \notin {"nil", "EOF"}

\* C11: after every conn.Read, read has stopped reading if and only if the
\* Read gave one of the three events; a chunk with CR LF in its interior only,
\* or ending in CR alone, or shorter than two bytes, is followed by another
\* Read; a read stopped by (a) has returned a text ending with CR LF.
C11_ReadStopsOnThreeEvents ==
    \A i \in active :
        LET h == hist[i] IN
        (Len(h) > 0 /\ Last(h).op = "R")
        => /\ pc[i] # "read" <=> StopEvent(Last(h))
           /\ (Last(h).err = "nil" /\ EndsWithCRLF(Last(h).data))
                => EndsWithCRLF(msg[i])

\* The part of C11 the code does keep: the same with the chunks shorter than
\* two bytes, on which read panics (C5), left aside.
ReadStopsOrPanics ==
    \A i \in active :
        LET h == hist[i] IN
        (Len(h) > 0 /\ Last(h).op = "R" /\ pc[i] # "panic")
        => /\ pc[i] # "read" <=> StopEvent(Last(h))
           /\ (Last(h).err = "nil" /\ EndsWithCRLF(Last(h).data))
                => EndsWithCRLF(msg[i])

\* Every byte the conn.Read calls of the last read call of h delivered, in
\* arrival order, whatever error came with it.
RECURSIVE Delivered(_)
Delivered(h) ==
    IF h = <<>> \/ Last(h).op # "R" THEN <<>>
    ELSE Delivered(Front(h)) \o Last(h).data

\* The last read call of h is over and SendPage holds what it returned.
ReadOver(i) ==
    /\ Len(hist[i]) > 0
    /\ Last(hist[i]).op = "R"
    /\ pc[i] \in {"write", "done"}

\* C12 as stated: however read ends, the text it returns is every byte the
\* conn.Read calls of this read call delivered, in arrival order.
C12_ReturnsEveryByte ==
    \A i \in active : ReadOver(i) => msg[i] = Delivered(hist[i])

\* C12 as amended: when read ends by a terminator or by end-of-input, the
\* text it returns is the chunks delivered with a nil error, in arrival
\* order, none dropped, duplicated or reordered; bytes delivered together
\* with end-of-input are left out; when read ends by an error it returns the
\* empty text.
C12_ReturnsChunksRead ==
    \A i \in active :
        ReadOver(i)
        => IF Last(hist[i]).err \in {"nil", "EOF"}
           THEN msg[i] = Received(hist[i])
           ELSE msg[i] = <<>>

\* "22" and "0\r\n" arrived in two chunks and read returned "220\r\n".
C12_Witness ==
    /\ ReadOver(1)
    /\ Count(hist[1], "R") = 2
    /\ hist[1][2].data = <<50, 50>>
    /\ msg[1] = <<50, 50, 48, 13, 10>>

\* The number of conn.Read calls the last read call of h has made.
RECURSIVE Reads(_)
Reads(h) ==
    IF h = <<>> \/ Last(h).op # "R" THEN 0 ELSE Reads(Front(h)) + 1

\* C13: the deadline is per call.  The armings of a connection are numbered
\* 1, 2, 3, ... in the order read of step 1, write of step 2, read of step 2,
\* ...: every conn.Read runs under the arming of the read call it belongs to
\* and every conn.Write under the arming of its write call, never under an
\* earlier one; inside a read call the deadline is armed once, runs down
\* from chunk to chunk without being extended, and so bounds the number of
\* chunks of the call.
C13_DeadlinePerCall ==
    \A i \in active :
        conn[i] # 0
        => LET h == hist[i]
               cn == conns[conn[i]]
               w == Count(h, "W")
           IN  /\ Last(h).op = "R" => cn.ioArm = 2 * w + 1
               /\ Last(h).op = "W" => cn.ioArm = 2 * w
               /\ pc[i] = "read" =>
                     /\ cn.arms = 2 * w + 1
                     /\ cn.deadline + Reads(h) = DeadlineTicks
               /\ Reads(h) <= DeadlineTicks + 1
               /\ Reads(h) = DeadlineTicks + 1 => Last(h).err = "timeout"

\* The read of step 3 after one chunk: the fifth arming of the connection,
\* one tick of it used.
C13_Witness ==
    /\ pc[1] = "read"
    /\ step[1] = 3
    /\ Reads(hist[1]) = 1
    /\ conns[conn[1]].arms = 5
    /\ conns[conn[1]].ioArm = 5
    /\ conns[conn[1]].deadline + 1 = DeadlineTicks

\* The first characters of text t are those of code p.
StartsWith(t, p) == \A k \in 1..Len(p) : k <= Len(t) /\ t[k] = p[k]

\* The last read call of invocation i returned a text with no error.
TextReturned(i) == ReadOver(i) /\ Last(hist[i]).err \in {"nil", "EOF"}

\* C14: the text read returned at a step is accepted (SendPage goes on to
\* the next command or, at step 5, returns nil) if and only if its first
\* three characters are the code of the step, whatever follows them;
\* otherwise SendPage returns the rejection of the step; a text of fewer
\* than three characters is rejected.
C14_PrefixComparisonOnly ==
    \A i \in active :
        LET s == StepOf(hist[i])
            accepted == \/ pc[i] = "write" /\ step[i] = s + 1
                        \/ pc[i] = "done" /\ result[i] = "nil" /\ s = 5
            rejected == pc[i] = "done" /\ result[i] = TableFailure[s]
        IN  TextReturned(i)
            => /\ accepted <=> StartsWith(msg[i], TablePrefix[s])
               /\ rejected <=> ~StartsWith(msg[i], TablePrefix[s])
               /\ Len(msg[i]) < 3 => rejected

\* The greeting "220\r\n2221\r\n", two lines in one text, is accepted.
C14_Witness ==
    /\ TextReturned(1)
    /\ msg[1] = <<50, 50, 48, 13, 10, 50, 50, 50, 49, 13, 10>>
    /\ pc[1] = "write"
    /\ step[1] = 2

\* C15: a write that returned no error has handed the whole command of its
\* step to the connection, in order and once; a conn.Read of a step finds the
\* complete commands of all steps so far on the wire; a write that returned
\* an error is the last call of the invocation: no read follows it.
C15_WriteHandsOverWholeCommand ==
    \A i \in active :
        conn[i] # 0
        => LET h == hist[i] IN
           /\ \A k \in 1..Len(h) :
                 h[k].op = "W"
                 => /\ h[k].err = "nil" =>
                          h[k].data = TableCommand(Count(SubSeq(h, 1, k), "W") + 1,
                                                   number[i], message[i])
                    /\ h[k].err # "nil" => k = Len(h) /\ pc[i] = "done"
                    /\ k < Len(h) => h[k + 1].op = "R"
           /\ (pc[i] = "read" \/ Last(h).op = "R")
                => WireFor(i) = WireOf(Count(h, "W"), number[i], message[i])

\* MESS has been written and the read of step 3 is about to start.
C15_Witness ==
    /\ pc[1] = "read"
    /\ step[1] = 3
    /\ Last(hist[1]).op = "W"
    /\ Last(hist[1]).err = "nil"
    /\ Last(hist[1]).data = TableCommand(3, number[1], message[1])
    /\ WireFor(1) = WireOf(2, number[1], message[1])

\* The text read returned at step s of history h: what the read call before
\* the s-th write (the last read call, when there is no s-th write) received.
ResponseOf(h, s) ==
    IF Count(h, "W") >= s
    THEN LET p == CHOOSE q \in 1..Len(h) :
                     h[q].op = "W" /\ Count(SubSeq(h, 1, q), "W") = s
         IN  Received(SubSeq(h, 1, p - 1))
    ELSE Received(h)

\* C16: no false success.  When SendPage has returned nil, the dial
\* succeeded, the four commands were written whole and in order, and the
\* five responses started with 220, 250, 250, 250, 221; when it has returned
\* the rejection of step s, the responses of steps 1..s-1 started with their
\* codes, that of step s did not, and exactly the commands of steps 2..s
\* were written.
C16_NoFalseSuccess ==
    \A i \in active :
        LET h == hist[i] IN
        /\ result[i] = "nil"
             => /\ conn[i] # 0
                /\ h[1].op = "D" /\ h[1].err = "nil"
                /\ Count(h, "W") = 4
                /\ \A k \in 1..Len(h) : h[k].op = "W" => h[k].err = "nil"
                /\ WireFor(i) = WireOf(4, number[i], message[i])
                /\ \A s \in 1..5 : StartsWith(ResponseOf(h, s), TablePrefix[s])
        /\ \A s \in 1..5 :
              result[i] = TableFailure[s]
              => /\ conn[i] # 0
                 /\ Count(h, "W") = s - 1
                 /\ \A k \in 1..Len(h) : h[k].op = "W" => h[k].err = "nil"
                 /\ WireFor(i) = WireOf(s - 1, number[i], message[i])
                 /\ \A t \in 1..(s - 1) :
                       StartsWith(ResponseOf(h, t), TablePrefix[t])
                 /\ ~StartsWith(ResponseOf(h, s), TablePrefix[s])

\* A success whose greeting came split in two chunks.
C16_Witness ==
    /\ result[1] = "nil"
    /\ hist[1][2].data = <<50, 50>>
    /\ ResponseOf(hist[1], 1) = <<50, 50, 48, 13, 10>>
    /\ ResponseOf(hist[1], 5) = <<50, 50, 49, 13, 10>>

\* C17: when the dial fails, SendPage returns the dial error, which is none
\* of the five protocol errors, and that is all it does: it has no
\* connection, it makes no call after the dial, it never enters the
\* handshake, and no connection is read, written, armed or closed by it.
C17_DialFailureOnly ==
    \A i \in active :
        LET h == hist[i] IN
        (Len(h) > 0 /\ h[1].op = "D" /\ h[1].err # "nil")
        => /\ Len(h) = 1
           /\ pc[i] = "done"
           /\ result[i] = "dialerr"
           /\ \A s \in 1..5 : result[i] # TableFailure[s]
           /\ conn[i] = 0
           /\ step[i] = 1
           /\ msg[i] = <<>>
           /\ \A c \in ConnIds :
                 /\ i \notin conns[c].users
                 /\ active = {i} =>
                       /\ conns[c].closes = 0
                       /\ conns[c].wire = <<>>
                       /\ conns[c].arms = 0

\* SendPage has returned after a failed dial.
C17_Witness ==
    /\ Len(hist[1]) = 1
    /\ hist[1][1].err = "dialerr"
    /\ pc[1] = "done"
    /\ result[1] = "dialerr"
    /\ conn[1] = 0

=============================================================================
